---- MODULE Spec2Model ----
(***************************************************************************)
(* Model of homeassistant/components/upnp/__init__.py: the setup of a      *)
(* UPnP/IGD config entry (discovery wait, device construction, entry       *)
(* reconciliation, first refresh), its unload, and the refresh cycle of    *)
(* UpnpDataUpdateCoordinator.                                              *)
(*                                                                         *)
(* The collaborators whose code is elsewhere in Home Assistant (ssdp,      *)
(* Device, config_entries, DataUpdateCoordinator) are modelled from the    *)
(* specification document; those definitions are marked where they occur.  *)
(***************************************************************************)
EXTENDS Integers, Sequences, FiniteSets, TLC

(* ------------------------------ bounds --------------------------------- *)
\* Number of times async_setup_entry may be invoked for the entry.
MaxAttempts == 2
\* Number of refresh cycles one coordinator may start.
MaxCycles == 3
\* Number of async_unload_entry calls after one async_setup_entry invocation.
MaxUnloads == 2
\* Number of fetches that may be in flight at once, counting those that
\* outlived their cycle.
MaxInflight == 3

(* --------------------------- value universes --------------------------- *)
EntryId == "entry1"
Udn == "uuid:igd1"
St == "urn:WANIPConnection:1"
OtherUdn == "uuid:igd2"

Locations == {"http://h1/desc.xml", "http://h2/desc.xml"}
\* The hostnames an entry may have stored before the setup.
StoredHostnames == {"h1"}

\* hostname of a device located at loc (spec: "hostname derived from the
\* location").
HostnameOf(loc) == IF loc = "http://h1/desc.xml" THEN "h1" ELSE "h2"

\* f"{udn}::{st}"
Usn(udn, st) == udn \o "::" \o st

\* The discovery events the ssdp collaborator may deliver.
Events == [usn : {Usn(Udn, St), Usn(OtherUdn, St)}, location : Locations]
NoInfo == [usn |-> "", location |-> ""]

Ops == {"traffic", "status"}
TrafficMaps ==
    { ("bytes_sent" :> 100),
      ("bytes_sent" :> 200) @@ ("uptime" :> 1) }
StatusMaps ==
    { ("status" :> 1) @@ ("uptime" :> 2) }
NoSnapshot == [k \in {} |-> 0]
NoMap == [k \in {} |-> 0]
NoDevice == [location |-> "", hostname |-> "", udn |-> ""]

\* dict(a); .update(b)  /  {**a, **b}: the keys of both, b's value on collision.
DictUpdate(a, b) ==
    [k \in (DOMAIN a) \cup (DOMAIN b) |-> IF k \in DOMAIN b THEN b[k] ELSE a[k]]

VARIABLES
    pc,               \* position of the session (async_setup_entry / lifecycle)
    result,           \* how the last async_setup_entry invocation ended
    attempt,          \* number of async_setup_entry invocations so far
    entryData,        \* entry.data
    entryUniqueId,    \* entry.unique_id ("" when unset)
    usn,              \* usn of async_setup_entry
    registered,       \* the discovery callback is registered with ssdp
    device_discovered_event,         \* device_discovered_event
    discovery_info,   \* discovery_info captured by device_discovered
    device,           \* the Device built by this attempt
    deviceStarted,    \* Device.async_start ran and async_stop did not since
    hassData,         \* hass.data[DOMAIN]: entry_id -> coordinator id
    coordId,          \* id of the coordinator object last constructed (0: none)
    data,             \* coordinator.data (last_snapshot)
    last_update_success,
    timerArmed,       \* the coordinator's periodic timer is scheduled
    platforms,        \* the platforms of the entry are set up
    cycle,            \* the refresh cycle executing, NoCycle when there is none
    cycleCount,       \* refresh cycles started by the current coordinator
    inflight,         \* fetches of the coordinator in flight: [cycle, op]
    hist              \* history (observation only)

vars == << pc, result, attempt, entryData, entryUniqueId, usn, registered,
           device_discovered_event, discovery_info, device, deviceStarted, hassData, coordId,
           data, last_update_success, timerArmed, platforms, cycle, cycleCount,
           inflight, hist >>

\* kind: what started the cycle; st, rs: state and result of each fetch;
\* first: the fetch that completed first.
NoCycle == [kind |-> "none", id |-> 0,
            st |-> [o \in Ops |-> "none"], rs |-> [o \in Ops |-> NoMap],
            first |-> "none"]

\* History of the current async_setup_entry invocation.
NoAttemptHist ==
    [ regCount |-> 0, cancelCount |-> 0, waitOutcome |-> "none",
      matchedLocs |-> {}, lastMatch |-> NoInfo, ignored |-> {},
      createCalls |-> 0, uniqueIdWrites |-> 0, hostnameWrites |-> 0,
      hostnameBefore |-> "", uniqueIdBefore |-> "", dataBefore |-> NoMap,
      reconciled |-> FALSE, registryUpserted |-> FALSE,
      createFailed |-> FALSE,
      coordCreated |-> FALSE, firstRefreshStarted |-> FALSE,
      firstRefreshOk |-> FALSE, lateCycle |-> FALSE,
      startCalls |-> 0, stopCalls |-> 0,
      unloadCount |-> 0, unloadError |-> FALSE,
      firstRefreshFailed |-> FALSE, hadFailure |-> FALSE, recovered |-> FALSE,
      log |-> [done |-> FALSE, kind |-> "none", anyFailed |-> FALSE,
               traffic |-> NoMap, status |-> NoMap, first |-> "none"] ]

(* ------------------------------- Init ---------------------------------- *)
\* async_setup has run (hass.data[DOMAIN] exists, no entry set up).  The
\* stored entry has udn and st, possibly a hostname (older entries have
\* none), possibly a unique_id.
Init ==
    /\ pc = "idle"
    /\ result = "none"
    /\ attempt = 0
    /\ \E h \in StoredHostnames \cup {""} :
         entryData = IF h = ""
                     THEN ("udn" :> Udn) @@ ("st" :> St)
                     ELSE ("udn" :> Udn) @@ ("st" :> St) @@ ("hostname" :> h)
    /\ entryUniqueId \in {"", Udn}
    /\ usn = ""
    /\ registered = FALSE
    /\ device_discovered_event = FALSE
    /\ discovery_info = NoInfo
    /\ device = NoDevice
    /\ deviceStarted = FALSE
    /\ hassData = NoMap
    /\ coordId = 0
    /\ data = NoSnapshot
    /\ last_update_success = TRUE
    /\ timerArmed = FALSE
    /\ platforms = FALSE
    /\ cycle = NoCycle
    /\ cycleCount = 0
    /\ inflight = {}
    /\ hist = NoAttemptHist

(* ------------------- async_setup_entry: discovery wait ----------------- *)
\* Lines 81-108 up to the await of line 111: usn, the event, the callback
\* and its registration.  The model follows one session at a time: from here
\* on the coordinator variables describe the coordinator this invocation
\* will construct, and what the previous session left in flight is no longer
\* observed (hass.data keeps what it holds).
SetupStart ==
    /\ pc \in {"idle", "failed", "stopped"}
    /\ attempt < MaxAttempts
    /\ attempt' = attempt + 1
    /\ usn' = Usn(entryData["udn"], entryData["st"])
    /\ device_discovered_event' = FALSE
    /\ discovery_info' = NoInfo
    /\ registered' = TRUE
    /\ pc' = "waiting"
    /\ result' = "none"
    /\ device' = NoDevice
    /\ hist' = [NoAttemptHist EXCEPT !.regCount = 1]
    /\ data' = NoSnapshot
    /\ last_update_success' = TRUE
    /\ cycle' = NoCycle
    /\ cycleCount' = 0
    /\ inflight' = {}
    /\ UNCHANGED << entryData, entryUniqueId, deviceStarted, hassData, coordId,
                    timerArmed, platforms >>

\* ssdp's filter {"usn": usn}: the event's token equals the registered one
\* (spec: field match against the identity token, no partial matching).
Matches(filterUsn, e) == e.usn = filterUsn

\* A variant of the callback that keeps the first payload it captured.
device_discovered_first_wins(info) ==
    /\ discovery_info' = IF device_discovered_event THEN discovery_info ELSE info
    /\ device_discovered_event' = TRUE

\* device_discovered, lines 93-100: capture the payload, set the event.
device_discovered(info) ==
    /\ discovery_info' = info
    /\ device_discovered_event' = TRUE

\* ssdp delivers an event that matches the registered filter: the callback runs.
DiscoveryMatch ==
    \E e \in Events :
      /\ registered
      /\ Matches(usn, e)
      /\ device_discovered(e)
      /\ hist' = [hist EXCEPT !.matchedLocs = @ \cup {e.location},
                              !.lastMatch = e]
      /\ UNCHANGED << pc, result, attempt, entryData, entryUniqueId, usn,
                      registered, device, deviceStarted, hassData, coordId,
                      data, last_update_success, timerArmed, platforms, cycle,
                      cycleCount, inflight >>

\* ssdp sees an event that does not match the filter: the callback is not run.
DiscoveryNoMatch ==
    \E e \in Events :
      /\ registered
      /\ ~Matches(usn, e)
      /\ hist' = [hist EXCEPT !.ignored = @ \cup {e.usn}]
      /\ UNCHANGED << pc, result, attempt, entryData, entryUniqueId, usn,
                      registered, device_discovered_event, discovery_info, device,
                      deviceStarted, hassData, coordId, data,
                      last_update_success, timerArmed, platforms, cycle,
                      cycleCount, inflight >>

\* A variant that cancels the callback after the try block, not in finally.
CancelsOnSuccessOnly(outcome) == outcome = "resolved"

\* A variant that cancels the callback in the except clause only.
CancelsOnTimeoutOnly(outcome) == outcome = "timeout"

\* Lines 115-116: finally: cancel_discovered_callback(), on every way out of
\* the try block.
FinallyCancels(outcome) == TRUE

\* A variant whose except clause logs and falls through.
AfterWaitSwallowed(outcome) ==
    CASE outcome = "resolved"  -> [pc |-> "create_device", result |-> "none"]
      [] outcome = "timeout"   -> [pc |-> "create_device", result |-> "none"]
      [] outcome = "cancelled" -> [pc |-> "failed", result |-> "cancelled"]

\* Lines 110-114: where async_setup_entry goes when the wait ends.  A timeout
\* raises ConfigEntryNotReady; any other exception propagates as it is.
AfterWait(outcome) ==
    CASE outcome = "resolved"  -> [pc |-> "create_device", result |-> "none"]
      [] outcome = "timeout"   -> [pc |-> "failed", result |-> "not_ready"]
      [] outcome = "cancelled" -> [pc |-> "failed", result |-> "cancelled"]

\* Lines 110-116: the wait ends with outcome.
WaitExit(outcome) ==
    /\ pc = "waiting"
    /\ pc' = AfterWait(outcome).pc
    /\ result' = AfterWait(outcome).result
    /\ registered' = IF FinallyCancels(outcome) THEN FALSE ELSE registered
    /\ hist' = [hist EXCEPT
                  !.cancelCount = IF FinallyCancels(outcome) THEN @ + 1 ELSE @,
                  !.waitOutcome = outcome]
    /\ UNCHANGED << attempt, entryData, entryUniqueId, usn, device_discovered_event,
                    discovery_info, device, deviceStarted, hassData, coordId,
                    data, last_update_success, timerArmed, platforms, cycle,
                    cycleCount, inflight >>

\* asyncio.wait_for returns: the event was set.
WaitResolved == device_discovered_event /\ WaitExit("resolved")

\* A variant waiting without a timeout.
WaitWithoutTimeout == FALSE /\ WaitExit("timeout")

\* asyncio.wait_for raises TimeoutError: 10 s passed and the event is not set.
WaitTimeout == ~device_discovered_event /\ WaitExit("timeout")

\* The wait raises something else (the task is cancelled).
WaitCancelled == WaitExit("cancelled")

(* ---------------- async_setup_entry: device and entry ------------------ *)
\* Device.async_create_device (spec: construct(location) -> DeviceHandle).
CreateDevice(loc) ==
    [location |-> loc, hostname |-> HostnameOf(loc), udn |-> Udn]

\* Lines 118-122, the construction succeeds.
CreateDeviceOk ==
    /\ pc = "create_device"
    /\ device' = CreateDevice(discovery_info.location)
    /\ pc' = "reconcile"
    /\ hist' = [hist EXCEPT !.createCalls = @ + 1]
    /\ UNCHANGED << result, attempt, entryData, entryUniqueId, usn, registered,
                    device_discovered_event, discovery_info, deviceStarted, hassData, coordId,
                    data, last_update_success, timerArmed, platforms, cycle,
                    cycleCount, inflight >>

\* A variant that catches the error and constructs the device again.
AfterCreateFailureRetry == [pc |-> "create_device", result |-> "none"]

\* Line 122: nothing catches what Device.async_create_device raises, and
\* async_setup_entry ends there.
AfterCreateFailure == [pc |-> "failed", result |-> "device_error"]

\* Lines 118-122, Device.async_create_device raises.
CreateDeviceFail ==
    /\ pc = "create_device"
    /\ pc' = AfterCreateFailure.pc
    /\ result' = AfterCreateFailure.result
    /\ hist' = [hist EXCEPT !.createCalls = @ + 1, !.createFailed = TRUE]
    /\ UNCHANGED << attempt, entryData, entryUniqueId, usn, registered,
                    device_discovered_event, discovery_info, device, deviceStarted, hassData,
                    coordId, data, last_update_success, timerArmed, platforms,
                    cycle, cycleCount, inflight >>

\* Line 125: if not entry.unique_id
NeedsUniqueId(uid) == uid = ""

\* A variant that writes the hostname on every setup.
NeedsHostnameAlways(d, hostname) == TRUE

\* Lines 137-140: the entry has no hostname or another one than the device.
NeedsHostname(d, hostname) ==
    "hostname" \notin DOMAIN d \/ d["hostname"] # hostname

\* Line 143: {CONFIG_ENTRY_HOSTNAME: device.hostname, **entry.data}
HostnameData(d, hostname) == DictUpdate(("hostname" :> hostname), d)

\* Lines 124-144: the entry is given a unique_id and a hostname.
\* config_entries.async_update_entry stores what it is given.  The history
\* of the discovery wait is dropped here.
Reconcile ==
    /\ pc = "reconcile"
    /\ entryUniqueId' = IF NeedsUniqueId(entryUniqueId)
                        THEN device.udn ELSE entryUniqueId
    /\ entryData' = IF NeedsHostname(entryData, device.hostname)
                    THEN HostnameData(entryData, device.hostname)
                    ELSE entryData
    /\ pc' = "registry"
    /\ hist' = [hist EXCEPT
          !.uniqueIdWrites = IF NeedsUniqueId(entryUniqueId) THEN @ + 1 ELSE @,
          !.hostnameWrites =
              IF NeedsHostname(entryData, device.hostname) THEN @ + 1 ELSE @,
          !.hostnameBefore =
              IF "hostname" \in DOMAIN entryData THEN entryData["hostname"]
              ELSE "",
          !.uniqueIdBefore = entryUniqueId,
          !.dataBefore = entryData,
          !.reconciled = TRUE,
          !.matchedLocs = {}, !.lastMatch = NoInfo, !.ignored = {}]
    /\ UNCHANGED << result, attempt, usn, registered, device_discovered_event, discovery_info,
                    device, deviceStarted, hassData, coordId, data,
                    last_update_success, timerArmed, platforms, cycle,
                    cycleCount, inflight >>

(* ------------------------- the refresh cycle --------------------------- *)
\* A cycle of the given kind starts: both fetches are launched (line 209:
\* asyncio.gather wraps each coroutine in a task).
NewCycle(kind, id) ==
    [kind |-> kind, id |-> id,
     st |-> [o \in Ops |-> "pending"], rs |-> [o \in Ops |-> NoMap],
     first |-> "none"]

CycleFetches(id) == {[cycle |-> id, op |-> o] : o \in Ops}

\* Lines 209-212, asyncio.gather without return_exceptions: it raises as soon
\* as one awaitable raised, returns when all returned, and waits otherwise.
GatherResult(st) ==
    IF \E o \in Ops : st[o] = "fail" THEN "raise"
    ELSE IF \A o \in Ops : st[o] = "ok" THEN "return"
    ELSE "pending"

\* A variant merging in the other order.
MergeValuesTrafficWins(traffic, status) == DictUpdate(status, traffic)

\* Lines 214-217: data = dict(update_values[0]); data.update(update_values[1])
MergeValues(traffic, status) == DictUpdate(traffic, status)

\* A variant gathering with return_exceptions=True and merging the mappings
\* of the fetches that succeeded.
_async_update_data_partial(st, rs) ==
    IF \E o \in Ops : st[o] = "pending"
    THEN [kind |-> "pending", data |-> NoSnapshot]
    ELSE IF \A o \in Ops : st[o] = "fail"
    THEN [kind |-> "raise", data |-> NoSnapshot]
    ELSE [kind |-> "return",
          data |-> MergeValues(IF st["traffic"] = "ok" THEN rs["traffic"] ELSE NoMap,
                               IF st["status"] = "ok" THEN rs["status"] ELSE NoMap)]

\* UpnpDataUpdateCoordinator._async_update_data, lines 207-217, given the
\* state and the result of each fetch: still waiting, raised, or returned data.
_async_update_data(st, rs) ==
    CASE GatherResult(st) = "raise" -> [kind |-> "raise", data |-> NoSnapshot]
      [] GatherResult(st) = "return" ->
           [kind |-> "return", data |-> MergeValues(rs["traffic"], rs["status"])]
      [] OTHER -> [kind |-> "pending", data |-> NoSnapshot]

\* A variant that goes on after a failed first refresh.
AfterFirstRefreshIgnoringFailure(ok) ==
    [pc |-> "start_device", result |-> "none", platforms |-> TRUE]

\* Lines 171-175: async_config_entry_first_refresh raises when the first
\* refresh failed, and async_setup_entry ends there; otherwise the platforms
\* are set up and the device is started next.
AfterFirstRefresh(ok) ==
    IF ok THEN [pc |-> "start_device", result |-> "none", platforms |-> TRUE]
    ELSE [pc |-> "failed", result |-> "refresh_error", platforms |-> FALSE]

\* A variant that leaves the timer stopped after a failed cycle.
RearmAfterCycleOnSuccessOnly(ok, listeners) == ok /\ listeners

\* DataUpdateCoordinator (spec 4.3 point 4, 7): after a periodic cycle, failed
\* or not, the timer is armed again while the session has consumers.
RearmAfterCycle(ok, listeners) == listeners

\* DataUpdateCoordinator (spec 4.3 points 2, 3): the end of a cycle whose
\* _async_update_data ended with out.
CycleEnd(out, st2, rs2, first2) ==
    LET ok == out.kind = "return"
        after == AfterFirstRefresh(ok)
        isFirst == cycle.kind = "first"
    IN
    /\ data' = IF ok THEN out.data ELSE data
    /\ last_update_success' = ok
    /\ cycle' = NoCycle
    /\ pc' = IF isFirst THEN after.pc ELSE pc
    /\ result' = IF isFirst THEN after.result ELSE result
    /\ platforms' = IF isFirst THEN after.platforms ELSE platforms
    /\ timerArmed' = IF isFirst THEN timerArmed
                     ELSE RearmAfterCycle(ok, platforms)
    /\ hist' = [hist EXCEPT
          !.log = [done |-> TRUE, kind |-> cycle.kind,
                   anyFailed |-> \E o \in Ops : st2[o] = "fail",
                   traffic |-> rs2["traffic"], status |-> rs2["status"],
                   first |-> first2],
          !.firstRefreshFailed = @ \/ (isFirst /\ \E o \in Ops : st2[o] = "fail"),
          !.firstRefreshOk = @ \/ (isFirst /\ \A o \in Ops : st2[o] = "ok"),
          !.lateCycle = @ \/ pc = "stopped",
          !.hadFailure = @ \/ (~isFirst /\ pc = "running"
                                 /\ \E o \in Ops : st2[o] = "fail"),
          !.recovered = @ \/ (hist.hadFailure /\ pc = "running"
                                 /\ \A o \in Ops : st2[o] = "ok")]

\* One fetch of the executing cycle completes, with a mapping or an error.
FetchStep(o, newSt, m) ==
    /\ cycle.kind # "none"
    /\ cycle.st[o] = "pending"
    /\ LET st2 == [cycle.st EXCEPT ![o] = newSt]
           rs2 == [cycle.rs EXCEPT ![o] = m]
           first2 == IF cycle.first = "none" THEN o ELSE cycle.first
           out == _async_update_data(st2, rs2)
       IN
       /\ inflight' = inflight \ {[cycle |-> cycle.id, op |-> o]}
       /\ IF out.kind = "pending"
          THEN /\ cycle' = [cycle EXCEPT !.st = st2, !.rs = rs2, !.first = first2]
               /\ UNCHANGED << pc, result, data, last_update_success,
                               timerArmed, platforms, hist >>
          ELSE CycleEnd(out, st2, rs2, first2)
    /\ UNCHANGED << attempt, entryData, entryUniqueId, usn, registered,
                    device_discovered_event, discovery_info, device, deviceStarted, hassData,
                    coordId, cycleCount >>

\* Device.async_get_traffic_data returns a mapping.
TrafficOk == \E m \in TrafficMaps : FetchStep("traffic", "ok", m)

\* Device.async_get_status returns a mapping.
StatusOk == \E m \in StatusMaps : FetchStep("status", "ok", m)

\* Device.async_get_traffic_data raises.
TrafficFail == FetchStep("traffic", "fail", NoMap)

\* Device.async_get_status raises.
StatusFail == FetchStep("status", "fail", NoMap)

\* A fetch that its cycle no longer awaits completes; nothing reads its result.
OrphanDone ==
    \E f \in inflight :
      /\ ~(cycle.kind # "none" /\ f.cycle = cycle.id
            /\ cycle.st[f.op] = "pending")
      /\ inflight' = inflight \ {f}
      /\ UNCHANGED << pc, result, attempt, entryData, entryUniqueId, usn,
                      registered, device_discovered_event, discovery_info, device,
                      deviceStarted, hassData, coordId, data,
                      last_update_success, timerArmed, platforms, cycle,
                      cycleCount, hist >>

(* -------- async_setup_entry: registry, coordinator, first refresh ------ *)
\* Lines 146-171 up to the await of the first refresh: the device registry
\* entry, the coordinator (a new DataUpdateCoordinator has no data and
\* last_update_success True), hass.data[DOMAIN][entry_id], and the start of
\* the first refresh.
CreateCoordinator ==
    /\ pc = "registry"
    /\ Cardinality(inflight) + Cardinality(Ops) <= MaxInflight
    /\ coordId' = attempt
    /\ data' = NoSnapshot
    /\ last_update_success' = TRUE
    /\ timerArmed' = FALSE
    /\ hassData' = DictUpdate(hassData, (EntryId :> attempt))
    /\ cycleCount' = 1
    /\ cycle' = NewCycle("first", 1)
    /\ inflight' = inflight \cup CycleFetches(1)
    /\ pc' = "first_refresh"
    /\ hist' = [hist EXCEPT !.registryUpserted = TRUE, !.coordCreated = TRUE,
                            !.firstRefreshStarted = TRUE]
    /\ UNCHANGED << result, attempt, entryData, entryUniqueId, usn, registered,
                    device_discovered_event, discovery_info, device, deviceStarted, platforms >>

\* Lines 177-180: device.async_start() returns and async_setup_entry returns
\* True; the session runs and the periodic timer is armed (spec 4.4).
DeviceStart ==
    /\ pc = "start_device"
    /\ deviceStarted' = TRUE
    /\ pc' = "running"
    /\ result' = "ok"
    /\ timerArmed' = TRUE
    /\ hist' = [hist EXCEPT !.startCalls = @ + 1]
    /\ UNCHANGED << attempt, entryData, entryUniqueId, usn, registered,
                    device_discovered_event, discovery_info, device, hassData, coordId, data,
                    last_update_success, platforms, cycle, cycleCount,
                    inflight >>

(* --------------- the coordinator's timer and manual refresh ------------ *)
\* DataUpdateCoordinator (spec 4.3 point 5): at most one cycle executes at a
\* time for a coordinator.
CanStartCycle(c) == c.kind = "none"

\* A refresh cycle of the given kind starts; the timer is not armed while a
\* cycle executes.
StartCycle(kind) ==
    /\ cycleCount < MaxCycles
    /\ Cardinality(inflight) + Cardinality(Ops) <= MaxInflight
    /\ CanStartCycle(cycle)
    /\ cycleCount' = cycleCount + 1
    /\ cycle' = NewCycle(kind, cycleCount + 1)
    /\ inflight' = inflight \cup CycleFetches(cycleCount + 1)
    /\ timerArmed' = FALSE
    /\ UNCHANGED << pc, result, attempt, entryData, entryUniqueId, usn,
                    registered, device_discovered_event, discovery_info, device, deviceStarted,
                    hassData, coordId, data, last_update_success, platforms,
                    hist >>

\* The periodic timer fires.
TimerTick == timerArmed /\ StartCycle("timer")

\* A consumer requests a manual refresh and no cycle is executing.
ManualRefresh == pc = "running" /\ platforms /\ StartCycle("manual")

\* A consumer requests a manual refresh while a cycle executes: the request
\* is coalesced with that cycle.
ManualRefreshCoalesced ==
    /\ pc = "running"
    /\ platforms
    /\ ~CanStartCycle(cycle)
    /\ UNCHANGED vars

(* -------------------------- async_unload_entry ------------------------- *)
\* A variant popping without a default: dict.pop(key) raises KeyError when
\* the key is missing.
PopNoDefault(m, k) ==
    [value |-> IF k \in DOMAIN m THEN m[k] ELSE 0,
     rest |-> [x \in (DOMAIN m) \ {k} |-> m[x]],
     raises |-> k \notin DOMAIN m]

\* Line 187: hass.data[DOMAIN].pop(config_entry.entry_id, None); value 0
\* stands for None.
Pop(m, k) ==
    [value |-> IF k \in DOMAIN m THEN m[k] ELSE 0,
     rest |-> [x \in (DOMAIN m) \ {k} |-> m[x]],
     raises |-> FALSE]

\* A variant that removes the coordinator and leaves its device running.
StopsDeviceNever(value) == FALSE

\* Lines 187-188: if coordinator := ...pop(...): await
\* coordinator.device.async_stop()
StopsDevice(value) == value # 0

\* Lines 183-191.  The coordinator, if there is one, is removed and its
\* device stopped; unloading the platforms removes the consumers, and with
\* them the periodic timer (spec 4.4, Running -> Stopped).  An entry is
\* unloaded only while no setup of it is in progress.
async_unload_entry ==
    /\ pc \in {"idle", "running", "failed", "stopped"}
    /\ hist.unloadCount < MaxUnloads
    /\ LET p == Pop(hassData, EntryId) IN
       IF p.raises
       THEN /\ hist' = [hist EXCEPT !.unloadCount = @ + 1,
                                    !.unloadError = TRUE]
            /\ UNCHANGED << pc, hassData, deviceStarted, platforms, timerArmed >>
       ELSE /\ hassData' = p.rest
            /\ deviceStarted' = IF StopsDevice(p.value) THEN FALSE
                                ELSE deviceStarted
            /\ platforms' = FALSE
            /\ timerArmed' = FALSE
            /\ pc' = IF pc = "running" THEN "stopped" ELSE pc
            /\ hist' = [hist EXCEPT
                          !.unloadCount = @ + 1,
                          !.stopCalls = IF StopsDevice(p.value) THEN @ + 1
                                        ELSE @]
    /\ UNCHANGED << result, attempt, entryData, entryUniqueId, usn, registered,
                    device_discovered_event, discovery_info, device, coordId, data,
                    last_update_success, cycle, cycleCount, inflight >>

(* ------------------------------ the system ----------------------------- *)
Next ==
    \/ SetupStart
    \/ DiscoveryMatch
    \/ DiscoveryNoMatch
    \/ WaitResolved
    \/ WaitTimeout
    \/ WaitCancelled
    \/ CreateDeviceOk
    \/ CreateDeviceFail
    \/ Reconcile
    \/ CreateCoordinator
    \/ TrafficOk
    \/ StatusOk
    \/ TrafficFail
    \/ StatusFail
    \/ OrphanDone
    \/ DeviceStart
    \/ TimerTick
    \/ ManualRefresh
    \/ ManualRefreshCoalesced
    \/ async_unload_entry

Spec == Init /\ [][Next]_vars

\* The event loop runs what is ready: a wait_for whose event is set returns,
\* and one whose 10 s have passed raises TimeoutError.
LiveSpec == Spec /\ WF_vars(WaitResolved) /\ WF_vars(WaitTimeout)

(* ------------------------------ properties ----------------------------- *)
\* The session is in the part of async_setup_entry that still has the
\* history of its discovery wait.
InDiscovery == pc \in {"waiting", "create_device", "reconcile"}

\* C1: in every invocation of async_setup_entry the discovery callback is
\* registered exactly once and its cancel handle is invoked exactly once,
\* however the wait ends (event, timeout, another exception): while the wait
\* lasts the callback is registered and not yet cancelled, and once the wait
\* has ended it is not registered and was cancelled once.
C1_RegisteredOnceCancelledOnce ==
    /\ attempt > 0 => hist.regCount = 1
    /\ pc = "waiting" => (registered /\ hist.cancelCount = 0)
    /\ (attempt > 0 /\ pc # "waiting") =>
          /\ hist.waitOutcome \in {"resolved", "timeout", "cancelled"}
          /\ ~registered
          /\ hist.cancelCount = 1

\* The wait ended by an exception other than the timeout, after a matching
\* event had set the event.
C1_Witness ==
    /\ hist.waitOutcome = "cancelled"
    /\ device_discovered_event
    /\ hist.cancelCount = 1
    /\ ~registered

\* C2: when the wait times out, async_setup_entry fails with
\* ConfigEntryNotReady, and that invocation constructs no device, writes
\* nothing to the entry, creates no coordinator and starts no refresh.
C2_TimeoutNotReady ==
    hist.waitOutcome = "timeout" =>
        /\ pc = "failed"
        /\ result = "not_ready"
        /\ device = NoDevice
        /\ hist.createCalls = 0
        /\ hist.uniqueIdWrites = 0
        /\ hist.hostnameWrites = 0
        /\ ~hist.coordCreated
        /\ ~hist.firstRefreshStarted
        /\ cycle = NoCycle
        /\ inflight = {}

\* The wait timed out although ssdp saw an event, one that did not match.
C2_Witness ==
    /\ hist.waitOutcome = "timeout"
    /\ result = "not_ready"
    /\ hist.ignored # {}

CycleEnds == cycle.kind # "none" /\ cycle'.kind = "none" /\ hist'.log.done

\* A snapshot has the keys of a traffic mapping and of a status mapping.
FullSnapshot(d) ==
    \E t \in TrafficMaps, s \in StatusMaps : DOMAIN d = (DOMAIN t) \cup (DOMAIN s)

\* C4: a refresh cycle in which a fetch failed publishes nothing: the
\* snapshot keeps the value it had, last_update_success becomes false, and
\* the snapshot is never a mapping with the keys of one fetch only.
C4_FailedCyclePublishesNothing ==
    /\ [][(CycleEnds /\ hist'.log.anyFailed) =>
             (data' = data /\ last_update_success' = FALSE)]_vars
    /\ [](data = NoSnapshot \/ FullSnapshot(data))

\* A cycle failed after an earlier one had published a snapshot, with one
\* of its fetches successful.
C4_Witness ==
    /\ hist.log.done
    /\ hist.log.anyFailed
    /\ hist.log.traffic # NoMap
    /\ data # NoSnapshot
    /\ ~last_update_success

\* C5: after a refresh cycle whose fetches both succeeded, the snapshot has
\* the keys of both mappings, the status mapping's value where it has the
\* key and the traffic mapping's value otherwise, and last_update_success is
\* true, whichever fetch completed first.
C5_SnapshotIsMerge ==
    (hist.log.done /\ ~hist.log.anyFailed) =>
        /\ DOMAIN data = (DOMAIN hist.log.traffic) \cup (DOMAIN hist.log.status)
        /\ \A k \in DOMAIN data :
              data[k] = IF k \in DOMAIN hist.log.status
                        THEN hist.log.status[k] ELSE hist.log.traffic[k]
        /\ last_update_success

\* Both fetches succeeded, the status fetch first, and both mappings have
\* the key uptime.
C5_Witness ==
    /\ hist.log.done
    /\ ~hist.log.anyFailed
    /\ hist.log.first = "status"
    /\ "uptime" \in DOMAIN hist.log.traffic
    /\ "uptime" \in DOMAIN hist.log.status

\* C6 as stated: the fetches of one coordinator that are in flight at the
\* same time all belong to the same refresh cycle.
C6_NoOverlappingFetchSets ==
    \A f, g \in inflight : f.cycle = g.cycle

\* C7: when the first refresh fails, async_setup_entry fails: the session
\* does not run, the platforms are not set up, the device is not started
\* and the timer is not armed.
C7_FirstRefreshFailureAborts ==
    hist.firstRefreshFailed =>
        /\ pc = "failed"
        /\ result = "refresh_error"
        /\ ~platforms
        /\ ~deviceStarted
        /\ hist.startCalls = 0
        /\ ~timerArmed

\* The first refresh failed with its status fetch, after the traffic fetch
\* had succeeded.
C7_Witness ==
    /\ hist.firstRefreshFailed
    /\ pc = "failed"
    /\ hist.log.traffic # NoMap

\* C8: in a running session a failed periodic cycle leaves the session
\* running with the timer armed, and a successful periodic cycle sets
\* last_update_success and publishes the merged snapshot.
C8_FailedCycleKeepsRunning ==
    [][(CycleEnds /\ pc = "running") =>
          /\ pc' = "running"
          /\ timerArmed'
          /\ platforms'
          /\ hist'.log.anyFailed => ~last_update_success'
          /\ ~hist'.log.anyFailed =>
                /\ last_update_success'
                /\ data' = DictUpdate(hist'.log.traffic, hist'.log.status)]_vars

\* A running session had a failed periodic cycle and then a successful one.
C8_Witness ==
    /\ pc = "running"
    /\ hist.recovered
    /\ last_update_success
    /\ data # NoSnapshot
    /\ timerArmed

\* C9: async_unload_entry raises no error, whether called once, twice or on
\* a session that never started; after it there is no coordinator for the
\* entry in hass.data, no armed timer and no registered discovery callback;
\* and a repeated call changes nothing.
C9_UnloadIdempotent ==
    /\ [](hist.unloadCount >= 1 =>
             /\ ~hist.unloadError
             /\ EntryId \notin DOMAIN hassData
             /\ ~timerArmed
             /\ ~registered)
    /\ [][(hist.unloadCount >= 1 /\ hist'.unloadCount = hist.unloadCount + 1) =>
             /\ UNCHANGED << pc, result, attempt, entryData, entryUniqueId, usn,
                             registered, device_discovered_event, discovery_info, device,
                             deviceStarted, hassData, coordId, data,
                             last_update_success, timerArmed, platforms, cycle,
                             cycleCount, inflight >>
             /\ hist'.stopCalls = hist.stopCalls
             /\ ~hist'.unloadError]_vars

\* A running session was unloaded twice.
C9_Witness ==
    /\ pc = "stopped"
    /\ hist.unloadCount = 2
    /\ hist.stopCalls = 1
    /\ hist.startCalls = 1

\* C10 as stated: when the entry had a hostname other than the device's,
\* the entry has the device's hostname after the reconciliation.
C10_StoredHostnameFollowsDevice ==
    (hist.reconciled /\ hist.hostnameBefore # ""
       /\ hist.hostnameBefore # device.hostname) =>
        entryData["hostname"] = device.hostname

\* C11: the reconciliation writes nothing it need not write: an entry that
\* had a unique id gets no unique-id update and keeps its unique id, and an
\* entry whose stored hostname was the device's gets no hostname update and
\* keeps its data.
C11_NoRedundantWrite ==
    hist.reconciled =>
        /\ hist.uniqueIdBefore # "" =>
              (hist.uniqueIdWrites = 0 /\ entryUniqueId = hist.uniqueIdBefore)
        /\ hist.hostnameBefore = device.hostname =>
              (hist.hostnameWrites = 0 /\ entryData = hist.dataBefore)

\* An entry with a unique id and with the device's hostname was reconciled.
C11_Witness ==
    /\ hist.reconciled
    /\ hist.uniqueIdBefore = Udn
    /\ hist.hostnameBefore = device.hostname
    /\ hist.uniqueIdWrites = 0
    /\ hist.hostnameWrites = 0

\* The steps of one session's lifecycle, and the start of the next session
\* after a failed or stopped one.
LifecycleStep(a, b) ==
    <<a, b>> \in { <<"idle", "waiting">>,
                   <<"waiting", "create_device">>, <<"waiting", "failed">>,
                   <<"create_device", "reconcile">>,
                   <<"create_device", "failed">>,
                   <<"reconcile", "registry">>,
                   <<"registry", "first_refresh">>,
                   <<"first_refresh", "start_device">>,
                   <<"first_refresh", "failed">>,
                   <<"start_device", "running">>,
                   <<"running", "stopped">> }

\* C12: a session takes the listed transitions only, in order: no device
\* is constructed before a matching event ended the wait, no first refresh
\* starts before the device, the reconciliation and the registry entry,
\* the platforms and the started device come after a successful first
\* refresh, and a running session went through all of it.
C12_LifecycleInOrder ==
    /\ [][pc' # pc =>
             \/ LifecycleStep(pc, pc')
             \/ /\ attempt' = attempt + 1
                /\ pc \in {"failed", "stopped"}
                /\ pc' = "waiting"]_vars
    /\ [][attempt' # attempt => pc' = "waiting"]_vars
    /\ [](hist.createCalls > 0 =>
             (hist.waitOutcome = "resolved" /\ discovery_info # NoInfo))
    /\ [](device # NoDevice => hist.createCalls = 1)
    /\ [](hist.firstRefreshStarted =>
             (device # NoDevice /\ hist.reconciled /\ hist.registryUpserted))
    /\ []((platforms \/ hist.startCalls > 0) => hist.firstRefreshOk)
    /\ [](pc = "running" =>
             /\ hist.waitOutcome = "resolved"
             /\ device # NoDevice
             /\ hist.reconciled
             /\ hist.firstRefreshOk
             /\ hist.startCalls = 1)

\* A session runs, its device started after a successful first refresh.
C12_Witness ==
    /\ pc = "running"
    /\ platforms
    /\ deviceStarted
    /\ hist.firstRefreshOk
    /\ hist.unloadCount = 0

\* C13: when the construction of the device fails the setup attempt fails
\* there: the construction was attempted once, no coordinator was created
\* or stored by the attempt, and no refresh was attempted.
C13_ConstructionFailureFailsSetup ==
    hist.createFailed =>
        /\ pc = "failed"
        /\ result = "device_error"
        /\ hist.createCalls = 1
        /\ device = NoDevice
        /\ ~hist.coordCreated
        /\ ~hist.firstRefreshStarted
        /\ (EntryId \in DOMAIN hassData => hassData[EntryId] # attempt)
        /\ cycle = NoCycle
        /\ cycleCount = 0
        /\ inflight = {}

\* The construction failed after a matching event had ended the wait.
C13_Witness ==
    /\ hist.createFailed
    /\ pc = "failed"
    /\ hist.waitOutcome = "resolved"
    /\ hist.cancelCount = 1

\* C14 as stated: every fetch in flight belongs to the cycle that executes,
\* so that none is left when its cycle has ended.
C14_NoFetchOutlivesItsCycle ==
    \A f \in inflight : cycle.kind # "none" /\ f.cycle = cycle.id

C16_ExitReleasesResources ==
    /\ pc = "failed" =>
          (~registered /\ ~timerArmed /\ hist.regCount = hist.cancelCount)
    /\ pc \in {"running", "stopped"} => ~registered

\* A setup attempt failed at its first refresh.
C16_Witness ==
    /\ pc = "failed"
    /\ result = "refresh_error"
    /\ hist.coordCreated
    /\ hist.cancelCount = 1

\* C17 as stated: after the unload of a running session no cycle starts, no
\* fetch is issued, the snapshot and the flag keep their values, and the
\* device is stopped.
C17_NothingChangesAfterUnload ==
    [][(pc = "stopped" /\ pc' = "stopped") =>
           /\ cycleCount' = cycleCount
           /\ inflight' \subseteq inflight
           /\ data' = data
           /\ last_update_success' = last_update_success
           /\ ~deviceStarted'
           /\ ~timerArmed']_vars

\* C17, amended: after the unload of a running session no cycle starts, no
\* fetch is issued, the timer is not armed and the device is stopped; the
\* snapshot and the flag change only at the end of the cycle that was
\* executing when the session was unloaded.
C17_OnlyTheExecutingCycleEnds ==
    [][(pc = "stopped" /\ pc' = "stopped") =>
           /\ cycleCount' = cycleCount
           /\ inflight' \subseteq inflight
           /\ ~deviceStarted'
           /\ ~timerArmed'
           /\ ~platforms'
           /\ (data' # data \/ last_update_success' # last_update_success) =>
                 CycleEnds]_vars

\* A cycle that executed when the session was unloaded ended afterwards and
\* published its snapshot.
C17_Witness ==
    /\ pc = "stopped"
    /\ hist.lateCycle
    /\ hist.log.done
    /\ ~hist.log.anyFailed
    /\ data # NoSnapshot
    /\ ~deviceStarted

\* C18: the wait for the discovery event ends, with the event or with the
\* timeout, whenever the event loop runs the wait.
C18_WaitTerminates ==
    (pc = "waiting") ~> (pc \in {"create_device", "failed"})

\* The wait ended with the timeout and no discovery event at all.
C18_Witness ==
    /\ pc = "failed"
    /\ hist.waitOutcome = "timeout"
    /\ hist.ignored = {}
    /\ discovery_info = NoInfo

\* C19 as stated: hass.data[DOMAIN] has a coordinator for the entry only
\* between the start of the first refresh and the unload of the running
\* session.
C19_CoordinatorOnlyWhileActive ==
    EntryId \in DOMAIN hassData =>
        pc \in {"first_refresh", "start_device", "running"}

\* C20 as stated: the device is stopped once per session at most, and only
\* after it was started.
C20_StopOnceAfterStart ==
    /\ hist.stopCalls <= 1
    /\ hist.stopCalls > 0 => hist.startCalls > 0

====
